---- MODULE Spec2Model ----
(***************************************************************************)
(* Model of QR.py: a linear command-line pipeline                          *)
(*   prompt -> generate_qr -> add_caption_below -> save -> open            *)
(* and of its helpers find_font, measure_text and ensure_png_filename.     *)
(*                                                                         *)
(* Python strings are sequences of one-character strings, so that strip,   *)
(* lower and os.path.splitext are computed character by character.         *)
(* Optional[str] is a record [isNone, s].  An image is a record            *)
(* [id, w, h, ops]: id is the object's identity, ops the drawing           *)
(* operations that produced its pixels, at absolute positions.             *)
(***************************************************************************)
EXTENDS Integers, Sequences, FiniteSets, TLC

VARIABLES
    platform,     \* sys.platform of the host
    fontState,    \* per FONT_PATHS index: "absent", "broken" (exists, load raises), "ok"
    metrics,      \* what the text-drawing library measures, fixed for a run
    pc,           \* position of main()
    typed_text,   \* the line input() returned at the first prompt, None before
    text,         \* main's local: text to encode (after strip)
    filename,     \* main's local: output filename
    caption,      \* main's local: Optional[str]
    qr_img,       \* main's local: image returned by generate_qr
    final_img,    \* main's local: image returned by add_caption_below
    disk,         \* the file written by Image.save, if any
    calls,        \* functions main has called so far, in order
    stdout,       \* messages printed so far, in order
    exitCode,     \* process exit status, NotExited while running
    uncaught,     \* name of the exception that left main(), "" if none
    cancelledAt,  \* the prompt at which input() raised EOFError/KeyboardInterrupt, "" if none
    saves,        \* the Image.save attempts so far: [name, format, ok]
    opened,       \* "" before open_file_platform, then "ok" or "failed"
    name_in,      \* argument of a call of ensure_png_filename
    name_out,     \* its return value
    name_done,    \* whether the call has returned
    font_out,     \* return value of a call of find_font
    font_done,    \* whether the call has returned
    comp_img,     \* image handed to the first add_caption_below of a sequence
    comp_cap,     \* caption of the sequence
    comp_pad,     \* padding of the sequence
    comp_hist     \* results of the add_caption_below calls of the sequence, in order

envVars  == <<platform, fontState, metrics>>
mainVars == <<pc, typed_text, text, filename, caption, qr_img, final_img, disk, calls, stdout,
              exitCode, uncaught, cancelledAt, saves, opened>>
nameVars == <<name_in, name_out, name_done>>
fontVars == <<font_out, font_done>>
compVars == <<comp_img, comp_cap, comp_pad, comp_hist>>
vars     == <<envVars, mainVars, nameVars, fontVars, compVars>>

----------------------------------------------------------------------------
(* Bounds of the model *)

\* longest generic filename over NameAlphabet given to ensure_png_filename
MaxNameLen == 3
\* largest QR symbol version the encoder picks (the library goes up to 40)
MaxVersion == 2
\* number of add_caption_below calls chained on one image
MaxCompose == 2

----------------------------------------------------------------------------
(* Python str *)

UpperChars == <<"A","B","C","D","E","F","G","H","I","J","K","L","M",
                "N","O","P","Q","R","S","T","U","V","W","X","Y","Z">>
LowerChars == <<"a","b","c","d","e","f","g","h","i","j","k","l","m",
                "n","o","p","q","r","s","t","u","v","w","x","y","z">>

LowerChar(c) ==
    IF \E i \in 1..Len(UpperChars) : UpperChars[i] = c
    THEN LowerChars[CHOOSE i \in 1..Len(UpperChars) : UpperChars[i] = c]
    ELSE c

\* str.lower()
Lower(s) == [i \in 1..Len(s) |-> LowerChar(s[i])]

\* str.isspace() of one character
IsSpace(c) == c \in {" ", "\t", "\n", "\r"}

RECURSIVE lstrip(_)
lstrip(s) ==
    IF s # <<>> /\ IsSpace(Head(s)) THEN lstrip(Tail(s)) ELSE s

RECURSIVE rstrip(_)
rstrip(s) ==
    IF s # <<>> /\ IsSpace(s[Len(s)]) THEN rstrip(SubSeq(s, 1, Len(s) - 1)) ELSE s

\* a strip that was forgotten
strip_forgotten(s) == s

\* str.strip()
strip(s) == rstrip(lstrip(s))

\* str.rfind of any of the characters cs: the last index (1-based), 0 when absent
rfind(s, cs) ==
    LET hits == {i \in 1..Len(s) : s[i] \in cs}
    IN  IF hits = {} THEN 0 ELSE CHOOSE i \in hits : \A j \in hits : j <= i

\* Optional[str]
None     == [isNone |-> TRUE,  s |-> <<>>]
Some(s)  == [isNone |-> FALSE, s |-> s]
\* Python truthiness of an Optional[str]
Truthy(o) == ~o.isNone /\ o.s # <<>>
\* s or None
OrNone(s) == IF s # <<>> THEN Some(s) ELSE None

----------------------------------------------------------------------------
(* Configuration *)

OUT_FILE ==
    <<"q","r","c","o","d","e","_","w","i","t","h","_",
      "c","a","p","t","i","o","n",".","p","n","g">>
FONT_SIZE == 16
FONT_PATHS ==
    << "/usr/share/fonts/truetype/dejavu/DejaVuSans-Bold.ttf",
       "/usr/share/fonts/truetype/dejavu/DejaVuSans.ttf",
       "/Library/Fonts/Arial.ttf",
       "C:\\Windows\\Fonts\\arial.ttf" >>

Platforms == {"win32", "darwin", "linux"}

----------------------------------------------------------------------------
(* ensure_png_filename *)

PNG_EXT == <<".","p","n","g">>
IMAGE_EXTS ==
    { <<".","p","n","g">>, <<".","j","p","g">>, <<".","j","p","e","g">>,
      <<".","b","m","p">>, <<".","g","i","f">>, <<".","w","e","b","p">> }

\* os.sep / os.altsep of the host: ntpath splits at both slashes
PathSeps(plat) == IF plat = "win32" THEN {"\\", "/"} ELSE {"/"}

\* the loop of genericpath._splitext that skips the leading dots of the last
\* path component: TRUE when a character before dotIndex is not a dot
RECURSIVE SkipLeadingDots(_, _, _)
SkipLeadingDots(p, filenameIndex, dotIndex) ==
    IF filenameIndex < dotIndex
    THEN IF p[filenameIndex] # "." THEN TRUE
         ELSE SkipLeadingDots(p, filenameIndex + 1, dotIndex)
    ELSE FALSE

\* os.path.splitext(p)
splitext(p, plat) ==
    LET sepIndex == rfind(p, PathSeps(plat))
        dotIndex == rfind(p, {"."})
    IN  IF dotIndex > sepIndex /\ SkipLeadingDots(p, sepIndex + 1, dotIndex)
        THEN [base |-> SubSeq(p, 1, dotIndex - 1), ext |-> SubSeq(p, dotIndex, Len(p))]
        ELSE [base |-> p, ext |-> <<>>]

ensure_png_filename_append(name, plat) ==
    LET n == strip(name)
    IN  IF n = <<>> THEN OUT_FILE
        ELSE LET sp == splitext(n, plat)
             IN  IF Lower(sp.ext) \in IMAGE_EXTS THEN n ELSE n \o PNG_EXT

ensure_png_filename(name, plat) ==
    LET n == strip(name)
    IN  IF n = <<>> THEN OUT_FILE
        ELSE LET sp == splitext(n, plat)
             IN  IF Lower(sp.ext) \in IMAGE_EXTS THEN n ELSE sp.base \o PNG_EXT

----------------------------------------------------------------------------
(* find_font *)

FontKinds   == {"truetype", "default"}
FontStates  == {"absent", "broken", "ok"}

\* ImageFont.truetype(p, size) when it succeeds, ImageFont.load_default()
TrueTypeFont(path, size) == [kind |-> "truetype", path |-> path, size |-> size]
DefaultFont == [kind |-> "default", path |-> "", size |-> 0]

\* os.path.exists(FONT_PATHS[i]); whether ImageFont.truetype then returns
PathExists(fs, i) == fs[i] # "absent"
FontLoads(fs, i)  == fs[i] = "ok"

\* the for loop of find_font from candidate i on
RECURSIVE find_font_from(_, _, _)
find_font_from(i, size, fs) ==
    IF i > Len(FONT_PATHS) THEN DefaultFont
    ELSE IF PathExists(fs, i)
         THEN IF FontLoads(fs, i) THEN TrueTypeFont(FONT_PATHS[i], size)
              ELSE find_font_from(i + 1, size, fs)      \* except Exception: continue
         ELSE find_font_from(i + 1, size, fs)

\* a find_font that gives up at the first candidate whose load raises
RECURSIVE find_font_stopAtBroken_from(_, _, _)
find_font_stopAtBroken_from(i, size, fs) ==
    IF i > Len(FONT_PATHS) THEN DefaultFont
    ELSE IF PathExists(fs, i)
         THEN IF FontLoads(fs, i) THEN TrueTypeFont(FONT_PATHS[i], size)
              ELSE DefaultFont
         ELSE find_font_stopAtBroken_from(i + 1, size, fs)

find_font_stopAtBroken(size, fs) == find_font_stopAtBroken_from(1, size, fs)

find_font(size, fs) == find_font_from(1, size, fs)

----------------------------------------------------------------------------
(* measure_text *)

\* What the drawing library reports for a font kind: the bounding box of a
\* text starts at (x0, y0) and each character adds cw to its width; ch is the
\* ink height.
GlyphA == [x0 |-> 0, y0 |-> 0, cw |-> 1,  ch |-> 2]
GlyphB == [x0 |-> 1, y0 |-> 3, cw |-> 50, ch |-> 12]
GlyphC == [x0 |-> 0, y0 |-> 4, cw |-> 3,  ch |-> 11]
GlyphTables ==
    { [k \in FontKinds |-> IF k = "truetype" THEN GlyphB ELSE GlyphA],
      [k \in FontKinds |-> IF k = "truetype" THEN GlyphC ELSE GlyphB],
      [k \in FontKinds |-> GlyphA] }
\* "bbox": ImageDraw.textbbox works; "legacy": it raises and textsize works;
\* "none": both raise
MeasureModes == {"bbox", "legacy", "none"}
MetricsSet == {[mode |-> m, glyph |-> g] : m \in MeasureModes, g \in GlyphTables}

\* d.textbbox((0, 0), text, font=font): (left, top, right, bottom)
textbbox(txt, font, m) ==
    LET g == m.glyph[font.kind]
    IN  <<g.x0, g.y0, g.x0 + g.cw * Len(txt), g.y0 + g.ch>>

\* d.textsize(text, font=font): the coarse estimate, offsets included
textsize(txt, font, m) ==
    LET g == m.glyph[font.kind]
    IN  <<g.x0 + g.cw * Len(txt), g.y0 + g.ch>>

measure_text(txt, font, m) ==
    IF m.mode = "bbox"
    THEN LET bbox == textbbox(txt, font, m)
         IN  [raised |-> FALSE, w |-> bbox[3] - bbox[1], h |-> bbox[4] - bbox[2]]
    ELSE IF m.mode = "legacy"
    THEN LET sz == textsize(txt, font, m)
         IN  [raised |-> FALSE, w |-> sz[1], h |-> sz[2]]
    ELSE [raised |-> TRUE, w |-> 0, h |-> 0]

----------------------------------------------------------------------------
(* Images, generate_qr, add_caption_below *)

NoImage == [id |-> 0, w |-> 0, h |-> 0, ops |-> <<>>]

DrawOp(op, x, y, w, h, what, color) ==
    [op |-> op, x |-> x, y |-> y, w |-> w, h |-> h, what |-> what, color |-> color]

\* the operations of an image pasted at (dx, dy)
Shifted(ops, dx, dy) ==
    [i \in 1..Len(ops) |-> [ops[i] EXCEPT !.x = @ + dx, !.y = @ + dy]]

\* modules per side of a QR symbol of the given version
ModuleCount(version) == 17 + 4 * version

\* generate_qr(text, box_size, border) when qr.make(fit=True) settles on `version`
generate_qr(txt, box_size, border, version, id) ==
    LET side == (ModuleCount(version) + 2 * border) * box_size
    IN  [id |-> id, w |-> side, h |-> side,
         ops |-> <<DrawOp("qr", 0, 0, side, side, txt, "black")>>]

Max(a, b) == IF a >= b THEN a ELSE b

\* lines 95-113 with the padding added once instead of on both sides
compose_caption_onePad(img, txt, padding, fs, m, id) ==
    LET font  == find_font(FONT_SIZE, fs)
        meas  == measure_text(txt, font, m)
        new_w == Max(img.w, meas.w + padding)
        new_h == img.h + meas.h + padding
        x_qr  == (new_w - img.w) \div 2
        x_txt == (new_w - meas.w) \div 2
        y_txt == img.h + padding
    IN  IF meas.raised
        THEN [raised |-> TRUE, img |-> NoImage, calls |-> <<"find_font", "measure_text">>]
        ELSE [raised |-> FALSE,
              img |-> [id |-> id, w |-> new_w, h |-> new_h,
                       ops |-> <<DrawOp("fill", 0, 0, new_w, new_h, <<>>, "white")>>
                               \o Shifted(img.ops, x_qr, 0)
                               \o <<DrawOp("text", x_txt, y_txt, meas.w, meas.h,
                                           txt, "black")>>],
              calls |-> <<"find_font", "measure_text", "Image.new", "paste", "text">>]

\* the body of add_caption_below after its guard: resolve the font, measure,
\* allocate the canvas `id`, paste the image, draw the caption
compose_caption(img, txt, padding, fs, m, id) ==
    LET font  == find_font(FONT_SIZE, fs)
        meas  == measure_text(txt, font, m)
        new_w == Max(img.w, meas.w + padding * 2)
        new_h == img.h + meas.h + padding * 2
        x_qr  == (new_w - img.w) \div 2
        x_txt == (new_w - meas.w) \div 2
        y_txt == img.h + padding
    IN  IF meas.raised
        THEN [raised |-> TRUE, img |-> NoImage, calls |-> <<"find_font", "measure_text">>]
        ELSE [raised |-> FALSE,
              img |-> [id |-> id, w |-> new_w, h |-> new_h,
                       ops |-> <<DrawOp("fill", 0, 0, new_w, new_h, <<>>, "white")>>
                               \o Shifted(img.ops, x_qr, 0)
                               \o <<DrawOp("text", x_txt, y_txt, meas.w, meas.h,
                                           txt, "black")>>],
              calls |-> <<"find_font", "measure_text", "Image.new", "paste", "text">>]

\* an add_caption_below that returns an image already carrying the caption
add_caption_below_guarded(img, cap, padding, fs, m, id) ==
    IF ~Truthy(cap) \/ (\E i \in 1..Len(img.ops) :
                            img.ops[i].op = "text" /\ img.ops[i].what = cap.s)
    THEN [raised |-> FALSE, img |-> img, calls |-> <<>>]
    ELSE compose_caption(img, cap.s, padding, fs, m, id)

\* an add_caption_below whose guard is `caption is None`
add_caption_below_noneOnly(img, cap, padding, fs, m, id) ==
    IF cap.isNone THEN [raised |-> FALSE, img |-> img, calls |-> <<>>]
    ELSE compose_caption(img, cap.s, padding, fs, m, id)

\* add_caption_below(img, caption, padding)
add_caption_below(img, cap, padding, fs, m, id) ==
    IF ~Truthy(cap) THEN [raised |-> FALSE, img |-> img, calls |-> <<>>]
    ELSE compose_caption(img, cap.s, padding, fs, m, id)

----------------------------------------------------------------------------
(* Image.save and open_file_platform *)

NoFile == [name |-> <<>>, format |-> "", img |-> NoImage]

\* the format Image.save infers from the filename: "" when the extension is
\* not registered (save then raises)
InferFormat(fname, plat) ==
    LET ext == Lower(splitext(fname, plat).ext)
    IN  IF ext = <<".","p","n","g">> THEN "PNG"
        ELSE IF ext \in {<<".","j","p","g">>, <<".","j","p","e","g">>} THEN "JPEG"
        ELSE IF ext = <<".","b","m","p">> THEN "BMP"
        ELSE IF ext = <<".","g","i","f">> THEN "GIF"
        ELSE IF ext = <<".","w","e","b","p">> THEN "WEBP"
        ELSE ""

\* an open_file_platform that lets the failure of the platform call escape
open_file_platform_propagates(plat, works) ==
    [raised |-> ~works,
     cmd |-> IF plat = "win32" THEN "startfile" ELSE IF plat = "darwin" THEN "open" ELSE "xdg-open"]

\* open_file_platform(abspath): `works` is whether the platform call opens the
\* file; os.startfile raises when it does not, os.system returns non-zero
open_file_platform(plat, works) ==
    [raised |-> FALSE,
     cmd |-> IF plat = "win32" THEN "startfile"
             ELSE IF plat = "darwin" THEN "open"
             ELSE "xdg-open"]

----------------------------------------------------------------------------
(* main *)

BOX_SIZE        == 10
BORDER          == 4
DEFAULT_PADDING == 10

NotExited == 0 - 1

\* exit status of the interpreter when the exception leaves main()
UncaughtExit(exc) == IF exc = "KeyboardInterrupt" THEN 130 ELSE 1

\* what input() can raise when the user cancels
Cancels == {"EOFError", "KeyboardInterrupt"}

\* lines typed at the three prompts
TextInputs    == { <<>>, <<" ">>, <<"\t", " ">>, <<" ","h","i"," ">> }
MainNameInputs ==
    { <<>>, <<" ">>, <<"o","u","t">>, <<"o","u","t",".","J","P","G">>,
      <<"o","u","t",".","t","x","t">>, <<" ","o",".","g","i","f"," ">>, <<".">> }
CaptionInputs == { <<>>, <<" ">>, <<"a","b","c">>, <<" ","h","e","l","l","o"," ">> }

InitEnv ==
    /\ platform \in Platforms
    /\ fontState \in [1..Len(FONT_PATHS) -> FontStates]
    /\ metrics \in MetricsSet

IdleMain ==
    /\ pc = "idle"
    /\ typed_text = None
    /\ text = <<>>
    /\ filename = <<>>
    /\ caption = None
    /\ qr_img = NoImage
    /\ final_img = NoImage
    /\ disk = NoFile
    /\ calls = <<>>
    /\ stdout = <<>>
    /\ exitCode = NotExited
    /\ uncaught = ""
    /\ cancelledAt = ""
    /\ saves = <<>>
    /\ opened = ""

IdleName == name_in = <<>> /\ name_out = <<>> /\ name_done = FALSE
IdleFont == font_out = DefaultFont /\ font_done = FALSE
IdleComp == comp_img = NoImage /\ comp_cap = None /\ comp_pad = 0 /\ comp_hist = <<>>

Init ==
    /\ InitEnv
    /\ pc = "prompt_text"
    /\ typed_text = None
    /\ text = <<>>
    /\ filename = <<>>
    /\ caption = None
    /\ qr_img = NoImage
    /\ final_img = NoImage
    /\ disk = NoFile
    /\ calls = <<>>
    /\ stdout = <<"banner">>
    /\ exitCode = NotExited
    /\ uncaught = ""
    /\ cancelledAt = ""
    /\ saves = <<>>
    /\ opened = ""
    /\ IdleName /\ IdleFont /\ IdleComp

\* lines 136-144: first prompt, cancellation handler, empty-text check
PromptText ==
    /\ pc = "prompt_text"
    /\ calls' = Append(calls, "input_text")
    /\ \/ \E exc \in Cancels :
            /\ cancelledAt' = "text"
            /\ stdout' = Append(stdout, "cancelled")
            /\ exitCode' = 0
            /\ pc' = "exit"
            /\ UNCHANGED <<typed_text, text>>
       \/ \E line \in TextInputs :
            /\ typed_text' = Some(line)
            /\ text' = strip(line)
            /\ cancelledAt' = cancelledAt
            /\ IF strip(line) = <<>>
               THEN /\ stdout' = Append(stdout, "no_text")
                    /\ exitCode' = 1
                    /\ pc' = "exit"
               ELSE /\ stdout' = stdout
                    /\ exitCode' = exitCode
                    /\ pc' = "prompt_filename"
    /\ UNCHANGED <<filename, caption, qr_img, final_img, disk, uncaught, saves, opened>>
    /\ UNCHANGED <<envVars, nameVars, fontVars, compVars>>

\* lines 146-147: second prompt, outside any try
PromptFilename ==
    /\ pc = "prompt_filename"
    /\ \/ \E exc \in Cancels :
            /\ cancelledAt' = "filename"
            /\ uncaught' = exc
            /\ exitCode' = UncaughtExit(exc)
            /\ pc' = "exit"
            /\ calls' = Append(calls, "input_filename")
            /\ filename' = filename
       \/ \E line \in MainNameInputs :
            /\ filename' = ensure_png_filename(
                               IF strip(line) # <<>> THEN strip(line) ELSE OUT_FILE, platform)
            /\ calls' = calls \o <<"input_filename", "ensure_png_filename">>
            /\ pc' = "prompt_caption"
            /\ UNCHANGED <<cancelledAt, uncaught, exitCode>>
    /\ UNCHANGED <<typed_text, text, caption, qr_img, final_img, disk, stdout, saves, opened>>
    /\ UNCHANGED <<envVars, nameVars, fontVars, compVars>>

\* line 148: third prompt, outside any try
PromptCaption ==
    /\ pc = "prompt_caption"
    /\ calls' = Append(calls, "input_caption")
    /\ \/ \E exc \in Cancels :
            /\ cancelledAt' = "caption"
            /\ uncaught' = exc
            /\ exitCode' = UncaughtExit(exc)
            /\ pc' = "exit"
            /\ caption' = caption
       \/ \E line \in CaptionInputs :
            /\ caption' = OrNone(strip(line))
            /\ pc' = "generate"
            /\ UNCHANGED <<cancelledAt, uncaught, exitCode>>
    /\ UNCHANGED <<typed_text, text, filename, qr_img, final_img, disk, stdout, saves, opened>>
    /\ UNCHANGED <<envVars, nameVars, fontVars, compVars>>

\* a Generate that reports the encoder's failure and carries on
Generate_carriesOn ==
    /\ pc = "generate"
    /\ calls' = Append(calls, "generate_qr")
    /\ \/ /\ stdout' = Append(stdout, "encode_failed")
          /\ pc' = "compose"
          /\ UNCHANGED <<qr_img, exitCode>>
       \/ \E version \in 1..MaxVersion :
            /\ qr_img' = generate_qr(text, BOX_SIZE, BORDER, version, 1)
            /\ pc' = "compose"
            /\ UNCHANGED <<stdout, exitCode>>
    /\ UNCHANGED <<typed_text, text, filename, caption, final_img, disk, uncaught, cancelledAt,
                   saves, opened>>
    /\ UNCHANGED <<envVars, nameVars, fontVars, compVars>>

\* lines 150-155: the encoder either rejects the payload or fits a version
Generate ==
    /\ pc = "generate"
    /\ calls' = Append(calls, "generate_qr")
    /\ \/ /\ stdout' = Append(stdout, "encode_failed")
          /\ exitCode' = 1
          /\ pc' = "exit"
          /\ qr_img' = qr_img
       \/ \E version \in 1..MaxVersion :
            /\ qr_img' = generate_qr(text, BOX_SIZE, BORDER, version, 1)
            /\ pc' = "compose"
            /\ UNCHANGED <<stdout, exitCode>>
    /\ UNCHANGED <<typed_text, text, filename, caption, final_img, disk, uncaught, cancelledAt,
                   saves, opened>>
    /\ UNCHANGED <<envVars, nameVars, fontVars, compVars>>

\* line 157, outside any try
Compose ==
    /\ pc = "compose"
    /\ LET r == add_caption_below(qr_img, caption, DEFAULT_PADDING, fontState, metrics,
                                  qr_img.id + 1)
       IN  /\ calls' = calls \o <<"add_caption_below">> \o r.calls
           /\ IF r.raised
              THEN /\ uncaught' = "Exception"
                   /\ exitCode' = UncaughtExit("Exception")
                   /\ pc' = "exit"
                   /\ final_img' = final_img
              ELSE /\ final_img' = r.img
                   /\ pc' = "save"
                   /\ UNCHANGED <<uncaught, exitCode>>
    /\ UNCHANGED <<typed_text, text, filename, caption, qr_img, disk, stdout, cancelledAt, saves, opened>>
    /\ UNCHANGED <<envVars, nameVars, fontVars, compVars>>

\* a Save1 whose failure is final: no retry with an explicit format
Save1_noFallback ==
    /\ pc = "save"
    /\ calls' = Append(calls, "save")
    /\ LET fmt == InferFormat(filename, platform)
       IN  \E written \in (IF fmt = "" THEN {FALSE} ELSE BOOLEAN) :
             /\ saves' = Append(saves, [name |-> filename, format |-> fmt, ok |-> written])
             /\ IF written
                THEN /\ disk' = [name |-> filename, format |-> fmt, img |-> final_img]
                     /\ pc' = "open"
                     /\ UNCHANGED <<stdout, exitCode>>
                ELSE /\ disk' = disk
                     /\ stdout' = Append(stdout, "save_failed")
                     /\ exitCode' = 1
                     /\ pc' = "exit"
    /\ UNCHANGED <<typed_text, text, filename, caption, qr_img, final_img, uncaught,
                   cancelledAt, opened>>
    /\ UNCHANGED <<envVars, nameVars, fontVars, compVars>>

\* lines 160-162: final_img.save(filename)
Save1 ==
    /\ pc = "save"
    /\ calls' = Append(calls, "save")
    /\ LET fmt == InferFormat(filename, platform)
       IN  \E written \in (IF fmt = "" THEN {FALSE} ELSE BOOLEAN) :
             /\ saves' = Append(saves, [name |-> filename, format |-> fmt, ok |-> written])
             /\ IF written
                THEN /\ disk' = [name |-> filename, format |-> fmt, img |-> final_img]
                     /\ pc' = "open"
                ELSE /\ disk' = disk
                     /\ pc' = "save_png"
    /\ UNCHANGED <<typed_text, text, filename, caption, qr_img, final_img, stdout, exitCode, uncaught,
                   cancelledAt, opened>>
    /\ UNCHANGED <<envVars, nameVars, fontVars, compVars>>

\* lines 163-168: final_img.save(filename, format="PNG")
Save2 ==
    /\ pc = "save_png"
    /\ calls' = Append(calls, "save_png")
    /\ \E written \in BOOLEAN :
         /\ saves' = Append(saves, [name |-> filename, format |-> "PNG", ok |-> written])
         /\ IF written
            THEN /\ disk' = [name |-> filename, format |-> "PNG", img |-> final_img]
                 /\ pc' = "open"
                 /\ UNCHANGED <<stdout, exitCode>>
            ELSE /\ disk' = disk
                 /\ stdout' = Append(stdout, "save_failed")
                 /\ exitCode' = 1
                 /\ pc' = "exit"
    /\ UNCHANGED <<typed_text, text, filename, caption, qr_img, final_img, uncaught, cancelledAt, opened>>
    /\ UNCHANGED <<envVars, nameVars, fontVars, compVars>>

\* lines 170-175: report, open_file_platform, final message, return
Open ==
    /\ pc = "open"
    /\ calls' = Append(calls, "open_file_platform")
    /\ \E works \in BOOLEAN :
         LET r == open_file_platform(platform, works)
         IN  /\ opened' = IF works THEN "ok" ELSE "failed"
             /\ IF r.raised
                THEN /\ stdout' = Append(stdout, "saved")
                     /\ uncaught' = "OSError"
                     /\ exitCode' = UncaughtExit("OSError")
                ELSE /\ stdout' = stdout \o <<"saved", "done">>
                     /\ uncaught' = uncaught
                     /\ exitCode' = 0
    /\ pc' = "exit"
    /\ UNCHANGED <<typed_text, text, filename, caption, qr_img, final_img, disk, cancelledAt, saves>>
    /\ UNCHANGED <<envVars, nameVars, fontVars, compVars>>

Next ==
    \/ PromptText
    \/ PromptFilename
    \/ PromptCaption
    \/ Generate
    \/ Compose
    \/ Save1
    \/ Save2
    \/ Open

Spec == Init /\ [][Next]_vars

----------------------------------------------------------------------------
(* ensure_png_filename on its own *)

NameAlphabet == {"a", ".", "/", "\\", " "}
StringsUpTo(alphabet, n) == UNION {[1..k -> alphabet] : k \in 0..n}

NameStems ==
    { <<>>, <<"o","u","t">>, <<".">>, <<"d",".","r","/","o","u","t">>,
      <<"o","u","t",".","t","a","r">> }
NameExts ==
    { <<>>, <<".">>, <<".","p","n","g">>, <<".","P","N","G">>, <<".","J","P","G">>,
      <<".","j","p","e","g">>, <<".","J","p","e","g">>, <<".","b","m","p">>,
      <<".","g","i","f">>, <<".","w","e","b","p">>, <<".","t","x","t">>,
      <<".","p","n","g","x">>, <<".","p","n">> }
Blanks == { <<>>, <<" ">> }

NameInputs ==
    StringsUpTo(NameAlphabet, MaxNameLen)
    \cup {l \o stem \o ext \o r : l \in Blanks, stem \in NameStems, ext \in NameExts,
                                  r \in Blanks}

\* ensure_png_filename reads the host's path separators and nothing else of
\* the environment
InitName ==
    /\ platform \in Platforms
    /\ fontState = [i \in 1..Len(FONT_PATHS) |-> "absent"]
    /\ metrics = [mode |-> "bbox", glyph |-> [k \in FontKinds |-> GlyphA]]
    /\ IdleMain /\ IdleFont /\ IdleComp
    /\ name_in \in NameInputs
    /\ name_out = <<>>
    /\ name_done = FALSE

CallEnsurePng ==
    /\ ~name_done
    /\ name_out' = ensure_png_filename(name_in, platform)
    /\ name_done' = TRUE
    /\ UNCHANGED <<name_in, envVars, mainVars, fontVars, compVars>>

NextName == CallEnsurePng

SpecName == InitName /\ [][NextName]_vars

----------------------------------------------------------------------------
(* find_font on its own *)

InitFont ==
    /\ platform \in Platforms
    /\ fontState \in [1..Len(FONT_PATHS) -> FontStates]
    /\ metrics = [mode |-> "bbox", glyph |-> [k \in FontKinds |-> GlyphA]]
    /\ IdleMain /\ IdleName /\ IdleComp
    /\ font_out = DefaultFont
    /\ font_done = FALSE

CallFindFont ==
    /\ ~font_done
    /\ font_out' = find_font(FONT_SIZE, fontState)
    /\ font_done' = TRUE
    /\ UNCHANGED <<envVars, mainVars, nameVars, compVars>>

NextFont == CallFindFont

SpecFont == InitFont /\ [][NextFont]_vars

----------------------------------------------------------------------------
(* add_caption_below on its own, applied again to its own result *)

CompImages ==
    { generate_qr(<<"h","i">>, BOX_SIZE, BORDER, 1, 1),
      [id |-> 1, w |-> 4, h |-> 3, ops |-> <<DrawOp("qr", 0, 0, 4, 3, <<"h","i">>, "black")>>],
      [id |-> 1, w |-> 7, h |-> 5, ops |-> <<DrawOp("qr", 0, 0, 7, 5, <<"h","i">>, "black")>>] }
CompCaptions ==
    { None, Some(<<>>), Some(<<"a">>), Some(<<"a","b","c">>), Some(<<"h","e","l","l","o">>) }
CompPaddings == {0, 1, DEFAULT_PADDING}

InitCompose ==
    /\ platform = "linux"
    /\ fontState \in [1..Len(FONT_PATHS) -> FontStates]
    /\ metrics \in MetricsSet
    /\ IdleMain /\ IdleName /\ IdleFont
    /\ comp_img \in CompImages
    /\ comp_cap \in CompCaptions
    /\ comp_pad \in CompPaddings
    /\ comp_hist = <<>>

\* the image the next call receives
CompSource == IF comp_hist = <<>> THEN comp_img ELSE comp_hist[Len(comp_hist)].img

CallAddCaption ==
    /\ Len(comp_hist) < MaxCompose
    /\ comp_hist # <<>> => ~comp_hist[Len(comp_hist)].raised
    /\ comp_hist' = Append(comp_hist,
                           add_caption_below(CompSource, comp_cap, comp_pad, fontState,
                                             metrics, CompSource.id + 1))
    /\ UNCHANGED <<comp_img, comp_cap, comp_pad, envVars, mainVars, nameVars, fontVars>>

NextCompose == CallAddCaption

SpecCompose == InitCompose /\ [][NextCompose]_vars

----------------------------------------------------------------------------
(* Properties *)

AllSpace(s) == \A i \in 1..Len(s) : IsSpace(s[i])

\* s without its leading and trailing whitespace, stated by positions
Trimmed(s) ==
    IF AllSpace(s) THEN <<>>
    ELSE LET inked == {i \in 1..Len(s) : ~IsSpace(s[i])}
             lo == CHOOSE i \in inked : \A j \in inked : i <= j
             hi == CHOOSE i \in inked : \A j \in inked : j <= i
         IN  SubSeq(s, lo, hi)

\* the extension of a path: the part from the last dot on, when that dot lies
\* in the last path component after a character that is not a dot
ExtStarts(n, seps) ==
    {d \in 1..Len(n) :
        /\ n[d] = "."
        /\ \A j \in (d + 1)..Len(n) : n[j] \notin (seps \cup {"."})
        /\ \E k \in 1..(d - 1) : n[k] # "." /\ \A j \in k..d : n[j] \notin seps}
ExtOf(n, seps) ==
    IF ExtStarts(n, seps) = {} THEN <<>>
    ELSE SubSeq(n, CHOOSE d \in ExtStarts(n, seps) : TRUE, Len(n))

\* what the normalisation rule yields for the name n
Normalised(n, seps) ==
    LET e == ExtOf(n, seps)
    IN  IF Lower(e) \in IMAGE_EXTS THEN n
        ELSE IF e = <<>> THEN n \o PNG_EXT
        ELSE SubSeq(n, 1, Len(n) - Len(e)) \o PNG_EXT

Has(seq, x) == \E i \in 1..Len(seq) : seq[i] = x
Count(seq, x) == Cardinality({i \in 1..Len(seq) : seq[i] = x})
IsPrefix(a, b) == Len(a) <= Len(b) /\ \A i \in 1..Len(a) : a[i] = b[i]

Stages == {"generate_qr", "add_caption_below", "save", "save_png", "open_file_platform"}
IsStage(c) == c \in Stages
StageCalls == SelectSeq(calls, IsStage)

\* C1: a cancellation raised by any of the three prompts ends the run with
\* exit code 0 after the cancelled message, with no encoding, no save attempt
\* and no open attempt.
C1_AnyPromptCancelExitsZero ==
    cancelledAt # "" =>
        /\ pc = "exit"
        /\ exitCode = 0
        /\ stdout[Len(stdout)] = "cancelled"
        /\ StageCalls = <<>>
        /\ saves = <<>>
        /\ disk = NoFile

\* C2: when the first prompt returns a line that is empty after trimming
\* whitespace, the run exits with code 1 and has asked for nothing more,
\* encoded nothing, saved nothing and opened nothing.
C2_EmptyTextExitsOne ==
    (~typed_text.isNone /\ AllSpace(typed_text.s)) =>
        /\ pc = "exit"
        /\ exitCode = 1
        /\ calls = <<"input_text">>
        /\ stdout = <<"banner", "no_text">>
        /\ saves = <<>>
        /\ disk = NoFile
        /\ opened = ""

C2_Witness ==
    /\ typed_text = Some(<<"\t", " ">>)
    /\ pc = "exit"
    /\ exitCode = 1

\* C3: the first save uses the filename with the format inferred from its
\* extension; the explicit-PNG save happens exactly when the first raised and
\* uses the same filename; the run exits with 1 exactly when both raised; a
\* successful attempt leads to the open step and to exit code 0.
C3_SaveProtocol ==
    /\ Len(saves) <= 2
    /\ Count(calls, "save") = (IF saves = <<>> THEN 0 ELSE 1)
    /\ saves # <<>> =>
          /\ saves[1].name = filename
          /\ saves[1].format = InferFormat(filename, platform)
          /\ (~saves[1].ok) <=> (pc = "save_png" \/ Len(saves) = 2)
    /\ Len(saves) = 2 =>
          /\ Has(calls, "save_png")
          /\ saves[2].name = saves[1].name
          /\ saves[2].format = "PNG"
    /\ (pc = "exit" /\ saves # <<>>) =>
          /\ exitCode = 1 <=> (Len(saves) = 2 /\ ~saves[1].ok /\ ~saves[2].ok)
          /\ exitCode \in {0, 1}
    /\ (saves # <<>> /\ saves[Len(saves)].ok) =>
          /\ disk = [name |-> filename, format |-> saves[Len(saves)].format, img |-> final_img]
          /\ pc \in {"open", "exit"}
          /\ pc = "exit" => (exitCode = 0 /\ calls[Len(calls)] = "open_file_platform")

C3_Witness ==
    /\ pc = "exit"
    /\ Len(saves) = 2
    /\ saves[1].format = "JPEG"
    /\ ~saves[1].ok
    /\ saves[2].ok
    /\ disk.format = "PNG"
    /\ exitCode = 0

\* C4: the stages run in the order encode, compose, save, open, each only
\* after every earlier one succeeded; when generate_qr raises the run exits
\* with 1 and nothing later is attempted; the file is opened only after a
\* save attempt succeeded.
C4_StageOrder ==
    /\ \/ IsPrefix(StageCalls,
                   <<"generate_qr", "add_caption_below", "save", "open_file_platform">>)
       \/ IsPrefix(StageCalls,
                   <<"generate_qr", "add_caption_below", "save", "save_png",
                     "open_file_platform">>)
    /\ Has(stdout, "encode_failed") =>
          /\ pc = "exit"
          /\ exitCode = 1
          /\ StageCalls = <<"generate_qr">>
          /\ saves = <<>>
          /\ disk = NoFile
    /\ Has(calls, "add_caption_below") => qr_img # NoImage
    /\ Has(calls, "save") => (qr_img # NoImage /\ final_img # NoImage /\ uncaught = "")
    /\ Has(calls, "save_png") => (saves # <<>> /\ ~saves[1].ok)
    /\ Has(calls, "open_file_platform") =>
          (\E i \in 1..Len(saves) : saves[i].ok) /\ disk # NoFile

C4_Witness ==
    /\ pc = "exit"
    /\ Has(stdout, "encode_failed")
    /\ exitCode = 1
    /\ ~caption.isNone

\* C5 as stated: every filename with a recognised extension is returned
\* unchanged, one without extension gets ".png" appended, one with another
\* extension gets it replaced by ".png", a blank one yields the default.
C5_Original ==
    name_done =>
        name_out = (IF AllSpace(name_in) THEN OUT_FILE
                    ELSE Normalised(name_in, PathSeps(platform)))

\* C5 as amended: the rule holds of the filename with its leading and
\* trailing whitespace trimmed off.
C5_TrimmedNameNormalised ==
    name_done =>
        name_out = (IF AllSpace(name_in) THEN OUT_FILE
                    ELSE Normalised(Trimmed(name_in), PathSeps(platform)))

C5_Witness ==
    /\ name_done
    /\ name_in = <<" ","o","u","t",".","t","x","t">>
    /\ name_out = <<"o","u","t",".","p","n","g">>

\* C6: with caption None or "" add_caption_below returns the very image it
\* was given and neither resolves a font, measures, nor allocates a canvas.
C6_NoCaptionIdentity ==
    ~Truthy(comp_cap) =>
        \A i \in 1..Len(comp_hist) :
            /\ ~comp_hist[i].raised
            /\ comp_hist[i].img = comp_img
            /\ comp_hist[i].calls = <<>>

C6_Witness ==
    /\ comp_cap = Some(<<>>)
    /\ Len(comp_hist) >= 1
    /\ comp_hist[1].img.id = comp_img.id
    /\ metrics.mode = "none"

\* the caption's size as measure_text reports it with the resolved font
CapSize == measure_text(comp_cap.s, find_font(FONT_SIZE, fontState), metrics)
\* the image the i-th call of the sequence received
CompArg(i) == IF i = 1 THEN comp_img ELSE comp_hist[i - 1].img

\* C7: with a non-empty caption measured (capW, capH), an image (w, h) and
\* padding p the result is a new canvas of width max(w, capW + 2p) and height
\* h + capH + 2p, the image pasted at x = floor((newWidth - w) / 2), y = 0,
\* the caption drawn at x = floor((newWidth - capW) / 2), y = h + p; for
\* w = 290, capW = 150, p = 10: newWidth = 290 and caption x = 70.
C7_CanvasGeometry ==
    Truthy(comp_cap) =>
        \A i \in 1..Len(comp_hist) :
            ~comp_hist[i].raised =>
                LET src == CompArg(i)
                    out == comp_hist[i].img
                    p   == comp_pad
                    txt == out.ops[Len(out.ops)]
                    xq  == out.ops[2].x - src.ops[1].x
                IN  /\ out.id # src.id
                    /\ out.w >= src.w /\ out.w >= CapSize.w + 2 * p
                    /\ out.w \in {src.w, CapSize.w + 2 * p}
                    /\ out.h = src.h + CapSize.h + 2 * p
                    /\ Len(out.ops) = Len(src.ops) + 2
                    /\ out.ops[1].op = "fill" /\ out.ops[1].w = out.w /\ out.ops[1].h = out.h
                    /\ 2 * xq <= out.w - src.w /\ out.w - src.w <= 2 * xq + 1
                    /\ \A k \in 1..Len(src.ops) :
                          out.ops[k + 1] = [src.ops[k] EXCEPT !.x = @ + xq]
                    /\ txt.op = "text" /\ txt.what = comp_cap.s
                    /\ 2 * txt.x <= out.w - CapSize.w /\ out.w - CapSize.w <= 2 * txt.x + 1
                    /\ txt.y = src.h + p
                    /\ (src.w = 290 /\ CapSize.w = 150 /\ p = 10) =>
                          (out.w = 290 /\ txt.x = 70)

C7_Witness ==
    /\ Len(comp_hist) >= 1
    /\ ~comp_hist[1].raised
    /\ comp_img.w = 290
    /\ comp_pad = 10
    /\ CapSize.w = 150
    /\ comp_hist[1].img.w = 290
    /\ comp_hist[1].img.ops[3].op = "text"
    /\ comp_hist[1].img.ops[3].x = 70

\* C8: applied twice with the same non-empty caption and padding p, the
\* second time to the result of the first, add_caption_below yields height
\* h + 2 * (capH + 2p): the caption band and the padding stack.
C8_DoubleComposeStacks ==
    (Truthy(comp_cap) /\ Len(comp_hist) >= 2 /\ ~comp_hist[2].raised) =>
        LET out == comp_hist[2].img
        IN  /\ out.h = comp_img.h + 2 * (CapSize.h + 2 * comp_pad)
            /\ out.id \notin {comp_img.id, comp_hist[1].img.id}
            /\ Cardinality({k \in 1..Len(out.ops) : out.ops[k].op = "text"}) = 2

C8_Witness ==
    /\ Truthy(comp_cap)
    /\ Len(comp_hist) >= 2
    /\ ~comp_hist[2].raised
    /\ comp_pad = 10
    /\ comp_hist[2].img.h > comp_hist[1].img.h

\* C9: once the image is saved, a failure of the open step changes nothing:
\* it is not reported, not retried, and the run prints its final message and
\* ends with exit code 0.
C9_OpenFailureSwallowed ==
    opened = "failed" =>
        /\ pc = "exit"
        /\ exitCode = 0
        /\ uncaught = ""
        /\ Len(stdout) >= 2
        /\ stdout[Len(stdout) - 1] = "saved"
        /\ stdout[Len(stdout)] = "done"
        /\ ~Has(stdout, "save_failed") /\ ~Has(stdout, "encode_failed")
        /\ Count(calls, "open_file_platform") = 1
        /\ disk # NoFile

C9_Witness ==
    /\ opened = "failed"
    /\ platform = "win32"
    /\ pc = "exit"
    /\ exitCode = 0

\* a candidate both exists and loads
Usable(i) == fontState[i] = "ok"

\* C10: find_font returns the font of the first candidate, in list order,
\* that exists and loads, and the built-in default font exactly when there is
\* none; it never fails.
C10_FirstUsableFont ==
    font_done =>
        /\ \/ \E i \in 1..Len(FONT_PATHS) :
                 /\ Usable(i)
                 /\ \A j \in 1..(i - 1) : ~Usable(j)
                 /\ font_out = TrueTypeFont(FONT_PATHS[i], FONT_SIZE)
           \/ /\ \A i \in 1..Len(FONT_PATHS) : ~Usable(i)
              /\ font_out = DefaultFont
        /\ font_out = DefaultFont <=> (\A i \in 1..Len(FONT_PATHS) : ~Usable(i))

C10_Witness ==
    /\ font_done
    /\ fontState[1] = "broken"
    /\ fontState[2] = "absent"
    /\ fontState[3] = "ok"
    /\ font_out.path = FONT_PATHS[3]

====
